---- MODULE Spec2Model ----
(***************************************************************************)
(* A model of ProposedBatch::new (miden-objects, batch/proposed_batch.rs)  *)
(* together with its helpers BatchOutputNoteTracker and                    *)
(* authenticate_unauthenticated_note.                                      *)
(*                                                                         *)
(* The constructor is a pure function of its four arguments.  The state    *)
(* holds the arguments, the constructor's local variables and its return   *)
(* value; one action models each block of the constructor's body, in the   *)
(* order of the source.                                                    *)
(*                                                                         *)
(* Representation                                                          *)
(*   Option<T>       a sequence of length 0 (None) or 1 (Some)             *)
(*   BTreeMap<K, V>  a function whose domain is the key set; iteration is  *)
(*                   in increasing key order (SortedKeys)                  *)
(*   Vec<T>          a sequence                                            *)
(*   Result<T, E>    [tag |-> "Ok", ...] or [tag |-> "Err", error |-> e]   *)
(*   hashes          injective tuples of what is hashed                    *)
(***************************************************************************)
EXTENDS Integers, Sequences, FiniteSets, TLC

\* ------------------------------------------------------------------------
\* Program constants
\* ------------------------------------------------------------------------

\* The three size limits imported by the constructor, scaled down from 1024
\* so that a batch of a few transactions can exceed them.
MAX_ACCOUNTS_PER_BATCH == 2

MAX_INPUT_NOTES_PER_BATCH == 2

MAX_OUTPUT_NOTES_PER_BATCH == 2

\* BlockNumber::from(u32::MAX), the start value of the expiration reduction.
\* The model's block numbers are 31 bits wide (the widest the checker's
\* integers allow); only their order matters, no arithmetic is done on them.
U32_MAX == 2147483647

\* ------------------------------------------------------------------------
\* Bounds of the model
\* ------------------------------------------------------------------------

\* Longest transaction list handed to the constructor.
MaxTxs == 3

\* Longest input-note list and longest output-note list of one transaction.
MaxNotesPerTx == 2

\* ------------------------------------------------------------------------
\* Generic helpers
\* ------------------------------------------------------------------------

None == <<>>

Some(x) == <<x>>

IsSome(o) == Len(o) = 1

Unwrap(o) == o[1]

Min(a, b) == IF a <= b THEN a ELSE b

SetMin(S) == CHOOSE x \in S : \A y \in S : x <= y

\* Keys of a BTreeMap in iteration order.
RECURSIVE SortedKeys(_)
SortedKeys(S) ==
    IF S = {} THEN <<>>
    ELSE LET m == SetMin(S) IN <<m>> \o SortedKeys(S \ {m})

\* BTreeMap::insert
MapInsert(map, k, v) == [x \in (DOMAIN map) \cup {k} |-> IF x = k THEN v ELSE map[x]]

\* BTreeMap::remove (the map that is left)
MapRemove(map, k) == [x \in (DOMAIN map) \ {k} |-> map[x]]

EmptyMap == [x \in {} |-> 0]

Ok(v) == [tag |-> "Ok", value |-> v]

Err(e) == [tag |-> "Err", error |-> e]

IsErr(r) == r.tag = "Err"

\* ------------------------------------------------------------------------
\* Collaborator types (contracts only)
\* ------------------------------------------------------------------------

\* NoteHeader::hash and OutputNote::hash: a commitment to (id, metadata).
NoteHash(id, metadata) == <<id, metadata>>

HeaderHash(header) == NoteHash(header.id, header.metadata)

\* BlockHeader::hash: a commitment to the header's fields.
BlockHash(h) == <<h.block_num, h.chain_root, h.note_root>>

\* MmrPeaks::hash_peaks: a commitment to the peaks.
HashPeaks(peaks) == <<Len(peaks), peaks>>

\* ChainMmr::get_block
GetBlock(mmr, block_num) ==
    IF block_num \in DOMAIN mmr.blocks THEN Some(mmr.blocks[block_num]) ELSE None

\* ChainMmr::block_headers
BlockHeaders(mmr) == {mmr.blocks[n] : n \in DOMAIN mmr.blocks}

\* Merge of two nodes of the note tree.
MerkleMerge(left, right) == <<left, right>>

\* MerklePath::compute_root: fold the path from the leaf up, the index's low
\* bit deciding on which side the sibling is merged.
RECURSIVE ComputeRoot(_, _, _, _)
ComputeRoot(path, i, index, node) ==
    IF i > Len(path) THEN node
    ELSE ComputeRoot(path, i + 1, index \div 2,
                     IF index % 2 = 0 THEN MerkleMerge(node, path[i])
                                      ELSE MerkleMerge(path[i], node))

\* MerklePath::verify
PathVerify(path, index, node, root) == ComputeRoot(path, 1, index, node) = root

\* BatchAccountUpdate::from_transaction
FromTransaction(tx) ==
    [account_id |-> tx.account_id,
     initial_state_commitment |-> tx.account_update.initial_state_commitment,
     final_state_commitment |-> tx.account_update.final_state_commitment,
     transactions |-> <<tx.id>>]

\* BatchAccountUpdate::merge_proven_tx
MergeProvenTx(agg, tx) ==
    IF agg.final_state_commitment # tx.account_update.initial_state_commitment
    THEN Err([kind |-> "AccountUpdateInitialStateMismatch", transaction_id |-> tx.id])
    ELSE Ok([agg EXCEPT !.final_state_commitment = tx.account_update.final_state_commitment,
                        !.transactions = Append(@, tx.id)])

\* BatchId::from_transactions: a commitment to the ordered transaction ids.
BatchIdFromTransactions(txs) == [i \in 1..Len(txs) |-> txs[i].id]

\* BatchNoteTree::with_contiguous_leaves: leaf i holds (id, metadata) of note i.
BatchNoteTreeWithContiguousLeaves(notes) ==
    [i \in 1..Len(notes) |-> <<notes[i].id, notes[i].metadata>>]

\* ------------------------------------------------------------------------
\* State
\* ------------------------------------------------------------------------

VARIABLES
    transactions,                \* argument: Vec<Arc<ProvenTransaction>>
    block_header,                \* argument: the reference block header
    chain_mmr,                   \* argument: ChainMmr
    unauthenticated_note_proofs, \* argument: BTreeMap<NoteId, NoteInclusionProof>
    pc,                          \* the block of the constructor that runs next
    account_updates,             \* local: BTreeMap<AccountId, BatchAccountUpdate>
    batch_expiration_block_num,  \* local: BlockNumber
    output_notes,                \* local: the BatchOutputNoteTracker's map
    input_notes,                 \* local: Vec<InputNoteCommitment>
    result,                      \* the constructor's return value
    parts,                       \* Option of the tuple into_parts has returned
    prev_block_header,           \* block inputs: the previous block header
    account_witnesses,           \* block inputs: AccountId -> state commitment
    batches,                     \* argument of ProposedBlock::new: the batches
    block                        \* the return value of ProposedBlock::new

args == <<transactions, block_header, chain_mmr, unauthenticated_note_proofs>>

locals == <<account_updates, batch_expiration_block_num, output_notes, input_notes>>

vars == <<transactions, block_header, chain_mmr, unauthenticated_note_proofs, pc,
          account_updates, batch_expiration_block_num, output_notes, input_notes, result,
          parts, prev_block_header, account_witnesses, batches, block>>

\* The inputs and the return value of the block constructor.
block_vars == <<prev_block_header, account_witnesses, batches, block>>

Pending == [tag |-> "Pending"]

\* ------------------------------------------------------------------------
\* ProposedBatch::new, block by block
\* ------------------------------------------------------------------------

\* Variant of InsertTransactionIds: an id is compared with the id of the
\* transaction before it only.
RECURSIVE InsertTransactionIdsAdjacent(_, _, _)
InsertTransactionIdsAdjacent(txs, i, transaction_set) ==
    IF i > Len(txs) THEN Ok(transaction_set)
    ELSE IF i > 1 /\ txs[i].id = txs[i - 1].id
         THEN Err([kind |-> "DuplicateTransaction", transaction_id |-> txs[i].id])
         ELSE InsertTransactionIdsAdjacent(txs, i + 1, transaction_set \cup {txs[i].id})

\* The duplicate-transaction loop.
RECURSIVE InsertTransactionIds(_, _, _)
InsertTransactionIds(txs, i, transaction_set) ==
    IF i > Len(txs) THEN Ok(transaction_set)
    ELSE IF txs[i].id \in transaction_set
         THEN Err([kind |-> "DuplicateTransaction", transaction_id |-> txs[i].id])
         ELSE InsertTransactionIds(txs, i + 1, transaction_set \cup {txs[i].id})

\* Check for empty or duplicate transactions.
CheckTransactionsResult(txs) ==
    IF Len(txs) = 0 THEN Err([kind |-> "EmptyTransactionBatch"])
    ELSE InsertTransactionIds(txs, 1, {})

\* Variant of VerifyChainResult: the root is compared before the length.
VerifyChainResultRootFirst(header, mmr) ==
    LET hashed_peaks == HashPeaks(mmr.peaks) IN
    IF hashed_peaks # header.chain_root
    THEN Err([kind |-> "InconsistentChainRoot",
              expected |-> header.chain_root, actual |-> hashed_peaks])
    ELSE IF mmr.chain_length # header.block_num
         THEN Err([kind |-> "InconsistentChainLength",
                   expected |-> header.block_num, actual |-> mmr.chain_length])
         ELSE Ok(hashed_peaks)

\* Verify block header and chain MMR match.
VerifyChainResult(header, mmr) ==
    IF mmr.chain_length # header.block_num
    THEN Err([kind |-> "InconsistentChainLength",
              expected |-> header.block_num, actual |-> mmr.chain_length])
    ELSE LET hashed_peaks == HashPeaks(mmr.peaks) IN
         IF hashed_peaks # header.chain_root
         THEN Err([kind |-> "InconsistentChainRoot",
                   expected |-> header.chain_root, actual |-> hashed_peaks])
         ELSE Ok(hashed_peaks)

\* The set of block hashes a transaction may reference.
BlockReferences(header, mmr) ==
    {BlockHash(h) : h \in BlockHeaders(mmr)} \cup {BlockHash(header)}

\* The block-reference loop.
RECURSIVE CheckBlockReferences(_, _, _)
CheckBlockReferences(txs, i, block_references) ==
    IF i > Len(txs) THEN Ok(block_references)
    ELSE IF txs[i].block_ref \notin block_references
         THEN Err([kind |-> "MissingTransactionBlockReference",
                   block_reference |-> txs[i].block_ref, transaction_id |-> txs[i].id])
         ELSE CheckBlockReferences(txs, i + 1, block_references)

\* Variant of VerifyBlockReferencesResult: the hash of the reference block
\* is not added to the set.
VerifyBlockReferencesResultChainOnly(txs, header, mmr) ==
    CheckBlockReferences(txs, 1, {BlockHash(h) : h \in BlockHeaders(mmr)})

\* Verify all block references from the transactions are in the chain.
VerifyBlockReferencesResult(txs, header, mmr) ==
    CheckBlockReferences(txs, 1, BlockReferences(header, mmr))

\* Variant of UpsertAccountUpdate: an occupied entry is replaced by the
\* transaction's own update instead of being merged with it.
UpsertAccountUpdateOverwrites(updates, tx) ==
    Ok(MapInsert(updates, tx.account_id, FromTransaction(tx)))

\* Variant of UpsertAccountUpdate: the error of the merge is dropped and the
\* entry is left as it was.
UpsertAccountUpdateIgnoresError(updates, tx) ==
    IF tx.account_id \notin DOMAIN updates
    THEN Ok(MapInsert(updates, tx.account_id, FromTransaction(tx)))
    ELSE LET merged == MergeProvenTx(updates[tx.account_id], tx) IN
         IF IsErr(merged) THEN Ok(updates)
         ELSE Ok(MapInsert(updates, tx.account_id, merged.value))

\* One iteration of the aggregation loop on the map of account updates:
\* a vacant entry is seeded from the transaction, an occupied one is merged.
UpsertAccountUpdate(updates, tx) ==
    IF tx.account_id \notin DOMAIN updates
    THEN Ok(MapInsert(updates, tx.account_id, FromTransaction(tx)))
    ELSE LET merged == MergeProvenTx(updates[tx.account_id], tx) IN
         IF IsErr(merged)
         THEN Err([kind |-> "AccountUpdateError",
                   account_id |-> tx.account_id, source |-> merged.error])
         ELSE Ok(MapInsert(updates, tx.account_id, merged.value))

\* Variant of ReduceExpiration: the last transaction's expiration wins.
ReduceExpirationLast(expiration, tx) == tx.expiration_block_num

\* The expiration reduction of one iteration.
ReduceExpiration(expiration, tx) == Min(expiration, tx.expiration_block_num)

\* The aggregation loop.
RECURSIVE AggregateLoop(_, _, _, _)
AggregateLoop(txs, i, updates, expiration) ==
    IF i > Len(txs)
    THEN Ok([account_updates |-> updates, batch_expiration_block_num |-> expiration])
    ELSE LET upserted == UpsertAccountUpdate(updates, txs[i]) IN
         IF IsErr(upserted) THEN upserted
         ELSE AggregateLoop(txs, i + 1, upserted.value, ReduceExpiration(expiration, txs[i]))

\* Aggregate the account updates, reduce the expiration, check the number of
\* accounts.
AggregateAccountUpdatesResult(txs) ==
    LET looped == AggregateLoop(txs, 1, EmptyMap, U32_MAX) IN
    IF IsErr(looped) THEN looped
    ELSE IF Cardinality(DOMAIN looped.value.account_updates) > MAX_ACCOUNTS_PER_BATCH
         THEN Err([kind |-> "TooManyAccountUpdates",
                   len |-> Cardinality(DOMAIN looped.value.account_updates)])
         ELSE looped

\* Variant of InsertInputNotes: the map is emptied at every transaction, so
\* that only duplicates within one transaction are found.
RECURSIVE InsertInputNotesPerTx(_, _, _, _)
InsertInputNotesPerTx(txs, i, j, input_note_map) ==
    IF i > Len(txs) THEN Ok(input_note_map)
    ELSE IF j > Len(txs[i].input_notes) THEN InsertInputNotesPerTx(txs, i + 1, 1, EmptyMap)
    ELSE LET nullifier == txs[i].input_notes[j].nullifier IN
         IF nullifier \in DOMAIN input_note_map
         THEN Err([kind |-> "DuplicateInputNote",
                   note_nullifier |-> nullifier,
                   first_transaction_id |-> input_note_map[nullifier],
                   second_transaction_id |-> txs[i].id])
         ELSE InsertInputNotesPerTx(txs, i, j + 1,
                                    MapInsert(input_note_map, nullifier, txs[i].id))

\* The duplicate-input-note loops: transaction i, its note j, and the map
\* from the nullifiers seen so far to the transaction that consumed them.
RECURSIVE InsertInputNotes(_, _, _, _)
InsertInputNotes(txs, i, j, input_note_map) ==
    IF i > Len(txs) THEN Ok(input_note_map)
    ELSE IF j > Len(txs[i].input_notes) THEN InsertInputNotes(txs, i + 1, 1, input_note_map)
    ELSE LET nullifier == txs[i].input_notes[j].nullifier IN
         IF nullifier \in DOMAIN input_note_map
         THEN Err([kind |-> "DuplicateInputNote",
                   note_nullifier |-> nullifier,
                   first_transaction_id |-> input_note_map[nullifier],
                   second_transaction_id |-> txs[i].id])
         ELSE InsertInputNotes(txs, i, j + 1, MapInsert(input_note_map, nullifier, txs[i].id))

\* Check for duplicates in input notes.
CheckDuplicateInputNotesResult(txs) == InsertInputNotes(txs, 1, 1, EmptyMap)

\* Variant of InsertOutputNotes: the value BTreeMap::insert returns is
\* dropped, so that a second note with the same id replaces the first.
RECURSIVE InsertOutputNotesOverwrites(_, _, _, _)
InsertOutputNotesOverwrites(txs, i, j, notes) ==
    IF i > Len(txs) THEN Ok(notes)
    ELSE IF j > Len(txs[i].output_notes) THEN InsertOutputNotesOverwrites(txs, i + 1, 1, notes)
    ELSE LET note == txs[i].output_notes[j] IN
         InsertOutputNotesOverwrites(txs, i, j + 1,
                                     MapInsert(notes, note.id, <<txs[i].id, note>>))

\* BatchOutputNoteTracker::new, the loops: transaction i, its output note j.
RECURSIVE InsertOutputNotes(_, _, _, _)
InsertOutputNotes(txs, i, j, notes) ==
    IF i > Len(txs) THEN Ok(notes)
    ELSE IF j > Len(txs[i].output_notes) THEN InsertOutputNotes(txs, i + 1, 1, notes)
    ELSE LET note == txs[i].output_notes[j] IN
         IF note.id \in DOMAIN notes
         THEN Err([kind |-> "DuplicateOutputNote",
                   note_id |-> note.id,
                   first_transaction_id |-> notes[note.id][1],
                   second_transaction_id |-> txs[i].id])
         ELSE InsertOutputNotes(txs, i, j + 1, MapInsert(notes, note.id, <<txs[i].id, note>>))

\* BatchOutputNoteTracker::new
BatchOutputNoteTrackerNew(txs) == InsertOutputNotes(txs, 1, 1, EmptyMap)

\* Variant of RemoveNote: the entry is looked up with BTreeMap::get and
\* stays in the map.
RemoveNoteKeepsEntry(notes, input_note_header) ==
    LET id == input_note_header.id IN
    IF id \in DOMAIN notes
    THEN LET input_hash == HeaderHash(input_note_header)
             output_hash == NoteHash(notes[id][2].id, notes[id][2].metadata)
         IN IF output_hash # input_hash
            THEN Err([kind |-> "NoteHashesMismatch", id |-> id,
                      input_hash |-> input_hash, output_hash |-> output_hash])
            ELSE Ok(<<TRUE, notes>>)
    ELSE Ok(<<FALSE, notes>>)

\* BatchOutputNoteTracker::remove_note: the entry is removed from the map
\* before the hashes are compared; value is <<removed, map that is left>>.
RemoveNote(notes, input_note_header) ==
    LET id == input_note_header.id IN
    IF id \in DOMAIN notes
    THEN LET input_hash == HeaderHash(input_note_header)
             output_hash == NoteHash(notes[id][2].id, notes[id][2].metadata)
         IN IF output_hash # input_hash
            THEN Err([kind |-> "NoteHashesMismatch", id |-> id,
                      input_hash |-> input_hash, output_hash |-> output_hash])
            ELSE Ok(<<TRUE, MapRemove(notes, id)>>)
    ELSE Ok(<<FALSE, notes>>)

\* Variant of IntoNotes: the notes in decreasing key order.
IntoNotesDescending(notes) ==
    LET keys == SortedKeys(DOMAIN notes)
    IN [i \in 1..Len(keys) |-> notes[keys[Len(keys) + 1 - i]][2]]

\* BatchOutputNoteTracker::into_notes: the notes in key order.
IntoNotes(notes) ==
    LET keys == SortedKeys(DOMAIN notes) IN [i \in 1..Len(keys) |-> notes[keys[i]][2]]

\* Variant of AuthenticateUnauthenticatedNote: the result of the path's
\* verification is dropped.
AuthenticateUnauthenticatedNoteUnverified(note_header, proof, note_block_header) == Ok(TRUE)

\* authenticate_unauthenticated_note
AuthenticateUnauthenticatedNote(note_header, proof, note_block_header) ==
    LET note_index == proof.location.node_index_in_block
        note_hash == HeaderHash(note_header)
    IN IF PathVerify(proof.note_path, note_index, note_hash, note_block_header.note_root)
       THEN Ok(TRUE)
       ELSE Err([kind |-> "UnauthenticatedNoteAuthenticationFailed",
                 note_id |-> note_header.id,
                 block_num |-> proof.location.block_num,
                 source |-> "MerkleError"])

\* InputNoteCommitment::from(nullifier): the commitment without a header.
CommitmentFromNullifier(nullifier) == [nullifier |-> nullifier, header |-> None]

\* Variant of AuthenticateInputNote: an authenticated note is pushed with
\* its header.
AuthenticateInputNoteKeepsHeader(input_note, proofs, mmr) ==
    LET input_note_header == Unwrap(input_note.header) IN
    IF input_note_header.id \in DOMAIN proofs
    THEN LET proof == proofs[input_note_header.id]
             note_block_header == GetBlock(mmr, proof.location.block_num)
         IN IF ~IsSome(note_block_header)
            THEN Err([kind |-> "UnauthenticatedInputNoteBlockNotInChainMmr",
                      block_number |-> proof.location.block_num,
                      note_id |-> input_note_header.id])
            ELSE LET authenticated == AuthenticateUnauthenticatedNote(
                                          input_note_header, proof, Unwrap(note_block_header))
                 IN IF IsErr(authenticated) THEN authenticated
                    ELSE Ok(input_note)
    ELSE Ok(input_note)

\* Variant of AuthenticateInputNote: a note without a proof is pushed
\* without its header as well.
AuthenticateInputNoteErasesAlways(input_note, proofs, mmr) ==
    LET input_note_header == Unwrap(input_note.header) IN
    IF input_note_header.id \in DOMAIN proofs
    THEN LET proof == proofs[input_note_header.id]
             note_block_header == GetBlock(mmr, proof.location.block_num)
         IN IF ~IsSome(note_block_header)
            THEN Err([kind |-> "UnauthenticatedInputNoteBlockNotInChainMmr",
                      block_number |-> proof.location.block_num,
                      note_id |-> input_note_header.id])
            ELSE LET authenticated == AuthenticateUnauthenticatedNote(
                                          input_note_header, proof, Unwrap(note_block_header))
                 IN IF IsErr(authenticated) THEN authenticated
                    ELSE Ok(CommitmentFromNullifier(input_note.nullifier))
    ELSE Ok(CommitmentFromNullifier(input_note.nullifier))

\* The body of the reconciliation loop for one input note that was not
\* created in the batch: the commitment to push, or the error.
AuthenticateInputNote(input_note, proofs, mmr) ==
    LET input_note_header == Unwrap(input_note.header) IN
    IF input_note_header.id \in DOMAIN proofs
    THEN LET proof == proofs[input_note_header.id]
             note_block_header == GetBlock(mmr, proof.location.block_num)
         IN IF ~IsSome(note_block_header)
            THEN Err([kind |-> "UnauthenticatedInputNoteBlockNotInChainMmr",
                      block_number |-> proof.location.block_num,
                      note_id |-> input_note_header.id])
            ELSE LET authenticated == AuthenticateUnauthenticatedNote(
                                          input_note_header, proof, Unwrap(note_block_header))
                 IN IF IsErr(authenticated) THEN authenticated
                    ELSE Ok(CommitmentFromNullifier(input_note.nullifier))
    ELSE Ok(input_note)

\* The reconciliation loops: transaction i, its input note j, the tracker's
\* map and the batch's input notes so far.
RECURSIVE ReconcileLoop(_, _, _, _, _, _, _)
ReconcileLoop(txs, i, j, notes, batch_input_notes, proofs, mmr) ==
    IF i > Len(txs) THEN Ok([output_notes |-> notes, input_notes |-> batch_input_notes])
    ELSE IF j > Len(txs[i].input_notes)
         THEN ReconcileLoop(txs, i + 1, 1, notes, batch_input_notes, proofs, mmr)
    ELSE LET input_note == txs[i].input_notes[j] IN
         IF IsSome(input_note.header)
         THEN LET removed == RemoveNote(notes, Unwrap(input_note.header)) IN
              IF IsErr(removed) THEN removed
              ELSE IF removed.value[1]
                   THEN ReconcileLoop(txs, i, j + 1, removed.value[2], batch_input_notes,
                                      proofs, mmr)
                   ELSE LET pushed == AuthenticateInputNote(input_note, proofs, mmr) IN
                        IF IsErr(pushed) THEN pushed
                        ELSE ReconcileLoop(txs, i, j + 1, removed.value[2],
                                           Append(batch_input_notes, pushed.value), proofs, mmr)
         ELSE ReconcileLoop(txs, i, j + 1, notes, Append(batch_input_notes, input_note),
                            proofs, mmr)

\* Variant of ReconcileInputNotesResult: a single pass over the
\* transactions, in which an input note is matched only against the output
\* notes of the transactions up to its own.
RECURSIVE ReconcileLoopStreaming(_, _, _, _, _, _, _)
ReconcileLoopStreaming(txs, i, j, notes, batch_input_notes, proofs, mmr) ==
    IF i > Len(txs) THEN Ok([output_notes |-> notes, input_notes |-> batch_input_notes])
    ELSE IF j > Len(txs[i].input_notes)
         THEN ReconcileLoopStreaming(txs, i + 1, 1, notes, batch_input_notes, proofs, mmr)
    ELSE LET input_note == txs[i].input_notes[j]
             seen == {id \in DOMAIN notes : \E k \in 1..i : txs[k].id = notes[id][1]}
         IN
         IF IsSome(input_note.header)
         THEN LET removed == RemoveNote([id \in seen |-> notes[id]], Unwrap(input_note.header)) IN
              IF IsErr(removed) THEN removed
              ELSE IF removed.value[1]
                   THEN ReconcileLoopStreaming(txs, i, j + 1,
                                               MapRemove(notes, Unwrap(input_note.header).id),
                                               batch_input_notes, proofs, mmr)
                   ELSE LET pushed == AuthenticateInputNote(input_note, proofs, mmr) IN
                        IF IsErr(pushed) THEN pushed
                        ELSE ReconcileLoopStreaming(txs, i, j + 1, notes,
                                                    Append(batch_input_notes, pushed.value),
                                                    proofs, mmr)
         ELSE ReconcileLoopStreaming(txs, i, j + 1, notes, Append(batch_input_notes, input_note),
                                     proofs, mmr)

ReconcileInputNotesResultStreaming(txs, notes, proofs, mmr) ==
    ReconcileLoopStreaming(txs, 1, 1, notes, <<>>, proofs, mmr)

\* Create input and output note set of the batch.
ReconcileInputNotesResult(txs, notes, proofs, mmr) ==
    ReconcileLoop(txs, 1, 1, notes, <<>>, proofs, mmr)

\* Variant of FinalizeResult: the batch id commits to the reference block
\* as well.
FinalizeResultIdOfBlock(txs, header, mmr, proofs, updates, expiration, notes, batch_input_notes) ==
    LET batch_output_notes == IntoNotes(notes) IN
    IF Len(batch_input_notes) > MAX_INPUT_NOTES_PER_BATCH
    THEN Err([kind |-> "TooManyInputNotes", len |-> Len(batch_input_notes)])
    ELSE IF Len(batch_output_notes) > MAX_OUTPUT_NOTES_PER_BATCH
    THEN Err([kind |-> "TooManyOutputNotes", len |-> Len(batch_output_notes)])
    ELSE Ok([id |-> <<BatchIdFromTransactions(txs), BlockHash(header)>>,
             transactions |-> txs,
             block_header |-> header,
             chain_mmr |-> mmr,
             unauthenticated_note_proofs |-> proofs,
             account_updates |-> updates,
             batch_expiration_block_num |-> expiration,
             input_notes |-> batch_input_notes,
             output_notes |-> batch_output_notes,
             output_notes_tree |-> BatchNoteTreeWithContiguousLeaves(batch_output_notes)])

\* Variant of FinalizeResult: the proofs are used up by the authentication
\* and the batch stores an empty map.
FinalizeResultDropsProofs(txs, header, mmr, proofs, updates, expiration, notes, batch_input_notes) ==
    LET batch_output_notes == IntoNotes(notes) IN
    IF Len(batch_input_notes) > MAX_INPUT_NOTES_PER_BATCH
    THEN Err([kind |-> "TooManyInputNotes", len |-> Len(batch_input_notes)])
    ELSE IF Len(batch_output_notes) > MAX_OUTPUT_NOTES_PER_BATCH
    THEN Err([kind |-> "TooManyOutputNotes", len |-> Len(batch_output_notes)])
    ELSE Ok([id |-> BatchIdFromTransactions(txs),
             transactions |-> txs,
             block_header |-> header,
             chain_mmr |-> mmr,
             unauthenticated_note_proofs |-> EmptyMap,
             account_updates |-> updates,
             batch_expiration_block_num |-> expiration,
             input_notes |-> batch_input_notes,
             output_notes |-> batch_output_notes,
             output_notes_tree |-> BatchNoteTreeWithContiguousLeaves(batch_output_notes)])

\* Variant of FinalizeResult: the limit on the output notes is checked
\* before the limit on the input notes.
FinalizeResultOutputsFirst(txs, header, mmr, proofs, updates, expiration, notes, batch_input_notes) ==
    LET batch_output_notes == IntoNotes(notes) IN
    IF Len(batch_output_notes) > MAX_OUTPUT_NOTES_PER_BATCH
    THEN Err([kind |-> "TooManyOutputNotes", len |-> Len(batch_output_notes)])
    ELSE IF Len(batch_input_notes) > MAX_INPUT_NOTES_PER_BATCH
    THEN Err([kind |-> "TooManyInputNotes", len |-> Len(batch_input_notes)])
    ELSE Ok([id |-> BatchIdFromTransactions(txs),
             transactions |-> txs,
             block_header |-> header,
             chain_mmr |-> mmr,
             unauthenticated_note_proofs |-> proofs,
             account_updates |-> updates,
             batch_expiration_block_num |-> expiration,
             input_notes |-> batch_input_notes,
             output_notes |-> batch_output_notes,
             output_notes_tree |-> BatchNoteTreeWithContiguousLeaves(batch_output_notes)])

\* Variant of FinalizeResult: the limit on the input notes is not checked.
FinalizeResultUnchecked(txs, header, mmr, proofs, updates, expiration, notes, batch_input_notes) ==
    LET batch_output_notes == IntoNotes(notes) IN
    IF Len(batch_output_notes) > MAX_OUTPUT_NOTES_PER_BATCH
    THEN Err([kind |-> "TooManyOutputNotes", len |-> Len(batch_output_notes)])
    ELSE Ok([id |-> BatchIdFromTransactions(txs),
             transactions |-> txs,
             block_header |-> header,
             chain_mmr |-> mmr,
             unauthenticated_note_proofs |-> proofs,
             account_updates |-> updates,
             batch_expiration_block_num |-> expiration,
             input_notes |-> batch_input_notes,
             output_notes |-> batch_output_notes,
             output_notes_tree |-> BatchNoteTreeWithContiguousLeaves(batch_output_notes)])

\* The size checks, the note tree, the batch id and the returned value.
FinalizeResult(txs, header, mmr, proofs, updates, expiration, notes, batch_input_notes) ==
    LET batch_output_notes == IntoNotes(notes) IN
    IF Len(batch_input_notes) > MAX_INPUT_NOTES_PER_BATCH
    THEN Err([kind |-> "TooManyInputNotes", len |-> Len(batch_input_notes)])
    ELSE IF Len(batch_output_notes) > MAX_OUTPUT_NOTES_PER_BATCH
    THEN Err([kind |-> "TooManyOutputNotes", len |-> Len(batch_output_notes)])
    ELSE Ok([id |-> BatchIdFromTransactions(txs),
             transactions |-> txs,
             block_header |-> header,
             chain_mmr |-> mmr,
             unauthenticated_note_proofs |-> proofs,
             account_updates |-> updates,
             batch_expiration_block_num |-> expiration,
             input_notes |-> batch_input_notes,
             output_notes |-> batch_output_notes,
             output_notes_tree |-> BatchNoteTreeWithContiguousLeaves(batch_output_notes)])

\* ProposedBatch::new as one function of its arguments: the blocks of its
\* body one after the other, each returning early with its error.
ProposedBatchNew(txs, header, mmr, proofs) ==
    LET checked == CheckTransactionsResult(txs)
        chain == VerifyChainResult(header, mmr)
        references == VerifyBlockReferencesResult(txs, header, mmr)
        aggregated == AggregateAccountUpdatesResult(txs)
        distinct == CheckDuplicateInputNotesResult(txs)
        tracker == BatchOutputNoteTrackerNew(txs)
        reconciled == ReconcileInputNotesResult(txs, tracker.value, proofs, mmr)
    IN IF IsErr(checked) THEN checked
       ELSE IF IsErr(chain) THEN chain
       ELSE IF IsErr(references) THEN references
       ELSE IF IsErr(aggregated) THEN aggregated
       ELSE IF IsErr(distinct) THEN distinct
       ELSE IF IsErr(tracker) THEN tracker
       ELSE IF IsErr(reconciled) THEN reconciled
       ELSE FinalizeResult(txs, header, mmr, proofs,
                           aggregated.value.account_updates,
                           aggregated.value.batch_expiration_block_num,
                           reconciled.value.output_notes, reconciled.value.input_notes)

\* ProposedBatch::into_parts: the fields in the order of the returned tuple.
IntoPartsOf(batch) ==
    <<batch.transactions, batch.block_header, batch.chain_mmr,
      batch.unauthenticated_note_proofs, batch.id, batch.account_updates,
      batch.input_notes, batch.output_notes_tree, batch.output_notes,
      batch.batch_expiration_block_num>>

\* ------------------------------------------------------------------------
\* Actions: one per block of ProposedBatch::new
\* ------------------------------------------------------------------------

\* An early return with an error: nothing else changes.
Fail(e) ==
    /\ pc' = "done"
    /\ result' = Err(e)
    /\ UNCHANGED <<args, locals, parts, block_vars>>

\* Fall through to the next block.
Goto(next) ==
    /\ pc' = next
    /\ UNCHANGED <<args, result, parts, block_vars>>

CheckTransactions ==
    /\ pc = "check_transactions"
    /\ LET r == CheckTransactionsResult(transactions) IN
       IF IsErr(r) THEN Fail(r.error)
       ELSE Goto("verify_chain") /\ UNCHANGED locals

VerifyChain ==
    /\ pc = "verify_chain"
    /\ LET r == VerifyChainResult(block_header, chain_mmr) IN
       IF IsErr(r) THEN Fail(r.error)
       ELSE Goto("verify_block_references") /\ UNCHANGED locals

VerifyBlockReferences ==
    /\ pc = "verify_block_references"
    /\ LET r == VerifyBlockReferencesResult(transactions, block_header, chain_mmr) IN
       IF IsErr(r) THEN Fail(r.error)
       ELSE Goto("aggregate_account_updates") /\ UNCHANGED locals

AggregateAccountUpdates ==
    /\ pc = "aggregate_account_updates"
    /\ LET r == AggregateAccountUpdatesResult(transactions) IN
       IF IsErr(r) THEN Fail(r.error)
       ELSE /\ Goto("check_duplicate_input_notes")
            /\ account_updates' = r.value.account_updates
            /\ batch_expiration_block_num' = r.value.batch_expiration_block_num
            /\ UNCHANGED <<output_notes, input_notes>>

CheckDuplicateInputNotes ==
    /\ pc = "check_duplicate_input_notes"
    /\ LET r == CheckDuplicateInputNotesResult(transactions) IN
       IF IsErr(r) THEN Fail(r.error)
       ELSE Goto("create_output_note_tracker") /\ UNCHANGED locals

CreateOutputNoteTracker ==
    /\ pc = "create_output_note_tracker"
    /\ LET r == BatchOutputNoteTrackerNew(transactions) IN
       IF IsErr(r) THEN Fail(r.error)
       ELSE /\ Goto("reconcile_input_notes")
            /\ output_notes' = r.value
            /\ UNCHANGED <<account_updates, batch_expiration_block_num, input_notes>>

ReconcileInputNotes ==
    /\ pc = "reconcile_input_notes"
    /\ LET r == ReconcileInputNotesResult(transactions, output_notes,
                                          unauthenticated_note_proofs, chain_mmr) IN
       IF IsErr(r) THEN Fail(r.error)
       ELSE /\ Goto("finalize")
            /\ output_notes' = r.value.output_notes
            /\ input_notes' = r.value.input_notes
            /\ UNCHANGED <<account_updates, batch_expiration_block_num>>

Finalize ==
    /\ pc = "finalize"
    /\ LET r == FinalizeResult(transactions, block_header, chain_mmr,
                               unauthenticated_note_proofs, account_updates,
                               batch_expiration_block_num, output_notes, input_notes) IN
       IF IsErr(r) THEN Fail(r.error)
       ELSE /\ pc' = "done"
            /\ result' = [tag |-> "Ok", batch |-> r.value]
            /\ UNCHANGED <<args, locals, parts, block_vars>>

\* ------------------------------------------------------------------------
\* Arguments the constructor is called with
\* ------------------------------------------------------------------------

\* All sequences over S of length at most n.
SeqsUpTo(S, n) == UNION {[1..k -> S] : k \in 0..n}

AccountIds == {1, 2, 3}

Commitments == {1, 2}

NoteIds == {1, 2, 3}

Expirations == {5, 9, U32_MAX}

\* The nullifier and the id of a note are both commitments to the same note
\* details, so a note's nullifier determines its id.
NullifierOf(n) == 100 + n

\* An input note consumed with its proof checked by the transaction kernel.
Authenticated(n) == [nullifier |-> NullifierOf(n), header |-> None]

\* An input note consumed without a proof: it carries its header.
Unauthenticated(n, metadata) ==
    [nullifier |-> NullifierOf(n), header |-> Some([id |-> n, metadata |-> metadata])]

OutNote(n, metadata) == [id |-> n, metadata |-> metadata]

EmptyNoteRoot == MerkleMerge(NoteHash(0, 0), NoteHash(0, 0))

\* The chain: blocks 0 and 1 are in the chain MMR, block 2 is the reference
\* block of the batch.  Block 1 holds notes 1 and 2 (metadata 1).
Block0 == [block_num |-> 0, chain_root |-> HashPeaks(<<>>), note_root |-> EmptyNoteRoot]

Block1 ==
    [block_num |-> 1, chain_root |-> HashPeaks(<<10>>),
     note_root |-> MerkleMerge(NoteHash(1, 1), NoteHash(2, 1))]

ReferenceBlock ==
    [block_num |-> 2, chain_root |-> HashPeaks(<<10, 20>>), note_root |-> EmptyNoteRoot]

ConsistentChainMmr ==
    [chain_length |-> 2, peaks |-> <<10, 20>>, blocks |-> (0 :> Block0 @@ 1 :> Block1)]

Proof(block_num, index, sibling) ==
    [location |-> [block_num |-> block_num, node_index_in_block |-> index],
     note_path |-> <<sibling>>]

\* A proof of note 1, a proof of note 2, a path that leads to another root,
\* and a proof against the reference block, which the chain MMR lacks.
ProofOptions ==
    {Proof(1, 0, NoteHash(2, 1)), Proof(1, 1, NoteHash(1, 1)),
     Proof(1, 0, NoteHash(1, 1)), Proof(2, 0, NoteHash(2, 1))}

\* All maps from a subset of the keys to the values.
PartialMaps(keys, values) == UNION {[d -> values] : d \in SUBSET keys}

Tx(id, account_id, init, final, block_ref, expiration, ins, outs) ==
    [id |-> id,
     account_id |-> account_id,
     account_update |-> [initial_state_commitment |-> init, final_state_commitment |-> final],
     block_ref |-> block_ref,
     expiration_block_num |-> expiration,
     input_notes |-> ins,
     output_notes |-> outs]

\* Transaction i of a batch whose transactions update account 1 one after
\* the other.
ChainedTx(i, expiration, ins, outs) ==
    Tx(i, 1, i, i + 1, BlockHash(Block1), expiration, ins, outs)

\* The constructor is called with these arguments.
Called(txs, header, mmr, proofs) ==
    /\ transactions = txs
    /\ block_header = header
    /\ chain_mmr = mmr
    /\ unauthenticated_note_proofs = proofs

\* Batches that differ in the accounts and the account states.
AccountChoices == [account_id : AccountIds, init : Commitments, final : Commitments]

AccountBatches ==
    \E n \in 1..MaxTxs : \E c \in [1..n -> AccountChoices] :
        Called([i \in 1..n |-> Tx(i, c[i].account_id, c[i].init, c[i].final,
                                  BlockHash(Block1), 10 + i, <<>>, <<>>)],
               ReferenceBlock, ConsistentChainMmr, EmptyMap)

\* Batches that differ in the expiration of their transactions.
ExpirationBatches ==
    \E n \in 1..MaxTxs : \E e \in [1..n -> Expirations] :
        Called([i \in 1..n |-> ChainedTx(i, e[i], <<>>, <<>>)],
               ReferenceBlock, ConsistentChainMmr, EmptyMap)

\* Two transactions on two accounts.
TwoTxs(ins1, outs1, ins2, outs2) ==
    <<Tx(1, 1, 1, 2, BlockHash(Block1), 11, ins1, outs1),
      Tx(2, 2, 1, 2, BlockHash(ReferenceBlock), 12, ins2, outs2)>>

\* Batches that differ in the notes consumed: note 1 with or without its
\* header, note 2 authenticated, note 3 unauthenticated.  The batch creates
\* no note or creates the three notes.
ConsumedNotes == {Authenticated(1), Unauthenticated(1, 1), Authenticated(2), Unauthenticated(3, 1)}

InputNoteBatches ==
    \E ins1 \in SeqsUpTo(ConsumedNotes, MaxNotesPerTx) :
    \E ins2 \in SeqsUpTo(ConsumedNotes, MaxNotesPerTx) :
    \E outs \in {<<<<>>, <<>>>>, <<<<OutNote(3, 1), OutNote(2, 1)>>, <<OutNote(1, 1)>>>>} :
        Called(TwoTxs(ins1, outs[1], ins2, outs[2]), ReferenceBlock, ConsistentChainMmr,
               EmptyMap)

\* Batches that differ in the notes created.
CreatedNotes == {OutNote(n, 1) : n \in NoteIds}

OutputNoteBatches ==
    \E outs1 \in SeqsUpTo(CreatedNotes, MaxNotesPerTx) :
    \E outs2 \in SeqsUpTo(CreatedNotes, MaxNotesPerTx) :
        Called(TwoTxs(<<>>, outs1, <<>>, outs2), ReferenceBlock, ConsistentChainMmr, EmptyMap)

\* Batches whose transactions consume notes that the batch creates, with
\* the same or with other metadata.
MatchConsumed == {Unauthenticated(1, 1), Unauthenticated(2, 1)}

MatchCreated == {<<>>, <<OutNote(1, 1)>>, <<OutNote(1, 2)>>, <<OutNote(1, 1), OutNote(1, 2)>>}

MatchBatches ==
    \E ins1 \in SeqsUpTo(MatchConsumed, MaxNotesPerTx) :
    \E outs1 \in MatchCreated :
    \E ins2 \in SeqsUpTo(MatchConsumed, MaxNotesPerTx) :
    \E outs2 \in MatchCreated :
        Called(TwoTxs(ins1, outs1, ins2, outs2), ReferenceBlock, ConsistentChainMmr, EmptyMap)

\* Batches with inclusion proofs for unauthenticated notes.
ProvenCreated == {<<>>, <<OutNote(1, 1)>>}

ProofBatches ==
    \E ins1 \in SeqsUpTo(MatchConsumed, MaxNotesPerTx) :
    \E outs1 \in ProvenCreated :
    \E ins2 \in SeqsUpTo(MatchConsumed, MaxNotesPerTx) :
    \E outs2 \in ProvenCreated :
    \E proofs \in PartialMaps({1, 2}, ProofOptions) :
        Called(TwoTxs(ins1, outs1, ins2, outs2), ReferenceBlock, ConsistentChainMmr, proofs)

\* Batches that mix the kinds of input notes: notes with and without a
\* header, with and without a proof, created in the batch or not.  The batch
\* creates no note, note 3, or three notes that no transaction consumes.
MixedConsumedFirst == {Unauthenticated(1, 1), Unauthenticated(3, 1), Authenticated(2)}

MixedConsumedSecond == {Unauthenticated(2, 1), Unauthenticated(3, 1)}

MixedCreated ==
    {<<<<>>, <<>>>>, <<<<>>, <<OutNote(3, 1)>>>>,
     <<<<OutNote(6, 1)>>, <<OutNote(5, 1), OutNote(4, 1)>>>>}

MixedProofs ==
    {EmptyMap, 1 :> Proof(1, 0, NoteHash(2, 1)),
     1 :> Proof(1, 0, NoteHash(2, 1)) @@ 3 :> Proof(1, 1, NoteHash(1, 1))}

MixedBatches ==
    \E ins1 \in SeqsUpTo(MixedConsumedFirst, MaxNotesPerTx) :
    \E ins2 \in SeqsUpTo(MixedConsumedSecond, MaxNotesPerTx) :
    \E outs \in MixedCreated : \E proofs \in MixedProofs :
        Called(TwoTxs(ins1, outs[1], ins2, outs[2]), ReferenceBlock, ConsistentChainMmr, proofs)

\* Batches that differ in the transaction ids, the block references and
\* the chain MMR.  Block 3 is in no chain.
TxIds == {1, 2, 3}

UnknownBlock == [block_num |-> 3, chain_root |-> HashPeaks(<<30>>), note_root |-> EmptyNoteRoot]

BlockRefs == {BlockHash(Block1), BlockHash(ReferenceBlock), BlockHash(UnknownBlock)}

ChainMmrs ==
    {[ConsistentChainMmr EXCEPT !.chain_length = l, !.peaks = p]
     : l \in {1, 2}, p \in {<<10, 20>>, <<10, 21>>}}

ChainBatches ==
    \E n \in 0..MaxTxs : \E ids \in [1..n -> TxIds] : \E refs \in [1..n -> BlockRefs] :
    \E mmr \in ChainMmrs :
        Called([i \in 1..n |-> Tx(ids[i], 1, i, i + 1, refs[i], 10 + i, <<>>, <<>>)],
               ReferenceBlock, mmr, EmptyMap)

\* Batches that differ in the reference block and the proofs as well: the
\* reference block is block 2 or block 1, and a proof may be handed in for a
\* note that no transaction consumes.
ReferenceBlocks == {ReferenceBlock, Block1}

UnusedProofs == {EmptyMap, 1 :> Proof(2, 0, NoteHash(2, 1))}

ContextBatches ==
    \E n \in 0..MaxTxs : \E ids \in [1..n -> {1, 2}] : \E header \in ReferenceBlocks :
    \E mmr \in ChainMmrs : \E proofs \in UnusedProofs :
        Called([i \in 1..n |-> Tx(ids[i], 1, i, i + 1, BlockHash(Block1), 10 + i, <<>>, <<>>)],
               header, mmr, proofs)

\* ------------------------------------------------------------------------
\* A returned batch is taken apart and the constructor is called again
\* ------------------------------------------------------------------------

\* A later reference block: block 3, with blocks 0 to 2 in its chain MMR.
LaterReferenceBlock ==
    [block_num |-> 3, chain_root |-> HashPeaks(<<10, 20, 30>>), note_root |-> EmptyNoteRoot]

LaterChainMmr ==
    [chain_length |-> 3, peaks |-> <<10, 20, 30>>,
     blocks |-> (0 :> Block0 @@ 1 :> Block1 @@ 2 :> ReferenceBlock)]

\* The list with the transactions at i and i + 1 exchanged.
Swapped(txs, i) ==
    [k \in 1..Len(txs) |-> IF k = i THEN txs[i + 1] ELSE IF k = i + 1 THEN txs[i] ELSE txs[k]]

\* Adjacent transactions on different accounts.
SwappablePositions(txs) ==
    {i \in 1..(Len(txs) - 1) : txs[i].account_id # txs[i + 1].account_id}

\* The arguments of the second call, given the parts of the first batch:
\* the parts themselves; the same transactions with a later reference block,
\* without the proofs, or both; two adjacent transactions on different
\* accounts exchanged.
SecondCalls(p) ==
    {<<p[1], p[2], p[3], p[4]>>,
     <<p[1], LaterReferenceBlock, LaterChainMmr, p[4]>>,
     <<p[1], p[2], p[3], EmptyMap>>,
     <<p[1], LaterReferenceBlock, LaterChainMmr, EmptyMap>>}
    \cup {<<Swapped(p[1], i), p[2], p[3], p[4]>> : i \in SwappablePositions(p[1])}

\* into_parts consumes a returned batch.
IntoParts ==
    /\ pc = "done"
    /\ result.tag = "Ok"
    /\ parts = None
    /\ parts' = Some(IntoPartsOf(result.batch))
    /\ result' = Pending
    /\ pc' = "destructured"
    /\ UNCHANGED <<args, locals, block_vars>>

\* The constructor is called a second time and runs to its return.
CallAgain ==
    /\ pc = "destructured"
    /\ \E a \in SecondCalls(Unwrap(parts)) :
          /\ transactions' = a[1]
          /\ block_header' = a[2]
          /\ chain_mmr' = a[3]
          /\ unauthenticated_note_proofs' = a[4]
          /\ LET r == ProposedBatchNew(a[1], a[2], a[3], a[4]) IN
             result' = IF IsErr(r) THEN r ELSE [tag |-> "Ok", batch |-> r.value]
    /\ pc' = "done"
    /\ UNCHANGED <<locals, parts, block_vars>>

Next ==
    \/ CheckTransactions
    \/ VerifyChain
    \/ VerifyBlockReferences
    \/ AggregateAccountUpdates
    \/ CheckDuplicateInputNotes
    \/ CreateOutputNoteTracker
    \/ ReconcileInputNotes
    \/ Finalize
    \/ IntoParts
    \/ CallAgain

Init ==
    /\ \/ ChainBatches
       \/ ContextBatches
       \/ AccountBatches
       \/ ExpirationBatches
       \/ InputNoteBatches
       \/ OutputNoteBatches
       \/ MatchBatches
       \/ ProofBatches
       \/ MixedBatches
    /\ pc = "check_transactions"
    /\ account_updates = EmptyMap
    /\ batch_expiration_block_num = U32_MAX
    /\ output_notes = EmptyMap
    /\ input_notes = <<>>
    /\ result = Pending
    /\ parts = None
    /\ prev_block_header = ReferenceBlock
    /\ account_witnesses = EmptyMap
    /\ batches = <<>>
    /\ block = Pending

Spec == Init /\ [][Next]_vars

\* ------------------------------------------------------------------------
\* ProposedBlock::new, the analog of the batch constructor one tier higher
\* (the expiration of the batches and the aggregation of the account
\* updates; the nullifiers and the notes of the block are left out)
\* ------------------------------------------------------------------------

\* Most batches handed to the block constructor.
MaxBatches == 2

\* The number of the proposed block.
BlockNumOf(prev) == prev.block_num + 1

\* Variant of CheckBatchExpiration: a batch that expires at the proposed
\* block is rejected as well.
RECURSIVE CheckBatchExpirationExclusive(_, _, _)
CheckBatchExpirationExclusive(bs, i, block_num) ==
    IF i > Len(bs) THEN Ok(block_num)
    ELSE IF ~(bs[i].batch_expiration_block_num > block_num)
         THEN Err([kind |-> "BatchExpired", batch_id |-> bs[i].id,
                   batch_expiration_block_num |-> bs[i].batch_expiration_block_num,
                   block_num |-> block_num])
         ELSE CheckBatchExpirationExclusive(bs, i + 1, block_num)

\* A batch is accepted iff it expires at the proposed block or later.
RECURSIVE CheckBatchExpiration(_, _, _)
CheckBatchExpiration(bs, i, block_num) ==
    IF i > Len(bs) THEN Ok(block_num)
    ELSE IF ~(bs[i].batch_expiration_block_num >= block_num)
         THEN Err([kind |-> "BatchExpired", batch_id |-> bs[i].id,
                   batch_expiration_block_num |-> bs[i].batch_expiration_block_num,
                   block_num |-> block_num])
         ELSE CheckBatchExpiration(bs, i + 1, block_num)

\* The merge of section 4.3 applied to a batch's update of the account.
MergeBatchUpdate(agg, update) ==
    IF agg.final_state_commitment # update.initial_state_commitment
    THEN Err([kind |-> "InconsistentAccountStateTransition", account_id |-> agg.account_id])
    ELSE Ok([agg EXCEPT !.final_state_commitment = update.final_state_commitment,
                        !.transactions = @ \o update.transactions])

\* Variant of ChainAccountUpdates: the updates are merged in the order of
\* the batches.
RECURSIVE ChainAccountUpdatesInBatchOrder(_, _, _, _, _)
ChainAccountUpdatesInBatchOrder(bs, a, remaining, current, agg) ==
    IF remaining = {} THEN Ok(agg)
    ELSE LET i == SetMin(remaining)
             update == bs[i].account_updates[a]
             merged == IF IsSome(agg) THEN MergeBatchUpdate(Unwrap(agg), update) ELSE Ok(update)
         IN IF update.initial_state_commitment # current \/ IsErr(merged)
            THEN Err([kind |-> "InconsistentAccountStateTransition", account_id |-> a])
            ELSE ChainAccountUpdatesInBatchOrder(bs, a, remaining \ {i},
                                                 update.final_state_commitment,
                                                 Some(merged.value))

\* The updates of account a by the batches with index in remaining, merged
\* along the chain of commitments that starts at current: the next update is
\* the one that starts where the chain has arrived, wherever its batch is.
RECURSIVE ChainAccountUpdates(_, _, _, _, _)
ChainAccountUpdates(bs, a, remaining, current, agg) ==
    IF remaining = {} THEN Ok(agg)
    ELSE LET next == {i \in remaining :
                         bs[i].account_updates[a].initial_state_commitment = current}
         IN IF Cardinality(next) # 1
            THEN Err([kind |-> "InconsistentAccountStateTransition", account_id |-> a])
            ELSE LET i == CHOOSE k \in next : TRUE
                     update == bs[i].account_updates[a]
                     merged == IF IsSome(agg) THEN MergeBatchUpdate(Unwrap(agg), update)
                               ELSE Ok(update)
                 IN IF IsErr(merged) THEN merged
                    ELSE ChainAccountUpdates(bs, a, remaining \ {i},
                                             update.final_state_commitment, Some(merged.value))

\* The block-level update of every account the batches update, the accounts
\* in key order.
RECURSIVE AggregateBlockAccounts(_, _, _, _, _)
AggregateBlockAccounts(bs, witnesses, accounts, k, updated) ==
    IF k > Len(accounts) THEN Ok(updated)
    ELSE LET a == accounts[k] IN
         IF a \notin DOMAIN witnesses
         THEN Err([kind |-> "UnknownAccountWitness", account_id |-> a])
         ELSE LET chained == ChainAccountUpdates(
                                 bs, a, {i \in 1..Len(bs) : a \in DOMAIN bs[i].account_updates},
                                 witnesses[a], None)
              IN IF IsErr(chained) THEN chained
                 ELSE AggregateBlockAccounts(bs, witnesses, accounts, k + 1,
                                             MapInsert(updated, a, Unwrap(chained.value)))

AggregateBlockAccountsResult(bs, witnesses) ==
    AggregateBlockAccounts(
        bs, witnesses,
        SortedKeys(UNION {DOMAIN bs[i].account_updates : i \in 1..Len(bs)}), 1, EmptyMap)

\* The expiration of the batches is checked against the proposed block.
CheckBatchesExpiration ==
    /\ pc = "check_batch_expiration"
    /\ LET r == CheckBatchExpiration(batches, 1, BlockNumOf(prev_block_header)) IN
       IF IsErr(r)
       THEN pc' = "block_done" /\ block' = r
       ELSE pc' = "aggregate_block_accounts" /\ UNCHANGED block
    /\ UNCHANGED <<args, locals, result, parts, prev_block_header, account_witnesses, batches>>

\* The account updates are aggregated and the block is returned.
AggregateBlockAccountUpdates ==
    /\ pc = "aggregate_block_accounts"
    /\ LET r == AggregateBlockAccountsResult(batches, account_witnesses) IN
       block' = IF IsErr(r) THEN r
                ELSE [tag |-> "Ok",
                      block |-> [block_num |-> BlockNumOf(prev_block_header),
                                 batches |-> batches,
                                 updated_accounts |-> r.value]]
    /\ pc' = "block_done"
    /\ UNCHANGED <<args, locals, result, parts, prev_block_header, account_witnesses, batches>>

BlockNext ==
    \/ CheckBatchesExpiration
    \/ AggregateBlockAccountUpdates

\* The batches of a block: built by the batch constructor from a run a..b
\* of the transactions that update account 1 one after the other, the first
\* of them with the expiration chosen, or from one transaction on account 2.
BatchExpirations == {5, 9}

RunOfTxs(a, b, expiration) ==
    [k \in 1..(b - a + 1) |->
        ChainedTx(a + k - 1, IF k = 1 THEN expiration ELSE U32_MAX, <<>>, <<>>)]

OtherAccountTxs(expiration) ==
    <<Tx(20, 2, 1, 2, BlockHash(Block1), expiration, <<>>, <<>>)>>

BuiltFrom(txs) == ProposedBatchNew(txs, ReferenceBlock, ConsistentChainMmr, EmptyMap).value

BatchChoices ==
    {BuiltFrom(RunOfTxs(r[1], r[2], e)) :
        r \in {r \in (1..MaxTxs) \X (1..MaxTxs) : r[1] <= r[2]}, e \in BatchExpirations}
    \cup {BuiltFrom(OtherAccountTxs(e)) : e \in BatchExpirations}

\* The block before the proposed one is block 4 or block 5.
PrevBlockHeaders ==
    {[block_num |-> n, chain_root |-> HashPeaks(<<n>>), note_root |-> EmptyNoteRoot]
     : n \in {4, 5}}

\* Account 1 is at commitment 1 or 2, account 2 at commitment 1 or unknown.
AccountWitnesses == {1 :> 1 @@ 2 :> 1, 1 :> 2 @@ 2 :> 1, 1 :> 1}

BlockInit ==
    /\ prev_block_header \in PrevBlockHeaders
    /\ account_witnesses \in AccountWitnesses
    /\ batches \in SeqsUpTo(BatchChoices, MaxBatches)
    /\ block = Pending
    /\ pc = "check_batch_expiration"
    /\ Called(<<>>, ReferenceBlock, ConsistentChainMmr, EmptyMap)
    /\ account_updates = EmptyMap
    /\ batch_expiration_block_num = U32_MAX
    /\ output_notes = EmptyMap
    /\ input_notes = <<>>
    /\ result = Pending
    /\ parts = None

BlockSpec == BlockInit /\ [][BlockNext]_vars

\* ------------------------------------------------------------------------
\* What the arguments are, stated without the constructor
\* ------------------------------------------------------------------------

Returned == pc = "done" /\ result.tag = "Ok"

Failed == pc = "done" /\ result.tag = "Err"

FailedWith(kind) == Failed /\ result.error.kind = kind

TxIndices == 1..Len(transactions)

\* Positions <<i, j>> of the input notes: note j of transaction i.
InputPositions ==
    UNION {{<<i, j>> : j \in 1..Len(transactions[i].input_notes)} : i \in TxIndices}

\* Positions <<i, j>> of the output notes.
OutputPositions ==
    UNION {{<<i, j>> : j \in 1..Len(transactions[i].output_notes)} : i \in TxIndices}

\* Transaction-then-note order.
Before(p, q) == p[1] < q[1] \/ (p[1] = q[1] /\ p[2] < q[2])

InputAt(p) == transactions[p[1]].input_notes[p[2]]

OutputAt(q) == transactions[q[1]].output_notes[q[2]]

\* The least position of a non-empty set of positions.
FirstPosition(P) == CHOOSE p \in P : \A q \in P : q = p \/ Before(p, q)

\* Ids of the notes the batch's transactions create.
CreatedIds == {OutputAt(q).id : q \in OutputPositions}

\* The input note at p carries a header and a transaction creates its id.
CreatedInBatch(p) == IsSome(InputAt(p).header) /\ Unwrap(InputAt(p).header).id \in CreatedIds

\* The earlier phases of the constructor, as conditions on the arguments.
DistinctTransactionIds ==
    \A i, k \in TxIndices : i # k => transactions[i].id # transactions[k].id

ChainConsistent ==
    /\ chain_mmr.chain_length = block_header.block_num
    /\ HashPeaks(chain_mmr.peaks) = block_header.chain_root

BlockReferencesKnown ==
    \A i \in TxIndices :
        \/ transactions[i].block_ref = BlockHash(block_header)
        \/ \E n \in DOMAIN chain_mmr.blocks :
              transactions[i].block_ref = BlockHash(chain_mmr.blocks[n])

PassesEarlierPhases ==
    /\ Len(transactions) > 0
    /\ DistinctTransactionIds
    /\ ChainConsistent
    /\ BlockReferencesKnown

\* Indices of the transactions on an account, and the one before index i.
OnAccount(a) == {i \in TxIndices : transactions[i].account_id = a}

TouchedAccounts == {transactions[i].account_id : i \in TxIndices}

HasPrevious(i) == \E k \in OnAccount(transactions[i].account_id) : k < i

Previous(i) ==
    CHOOSE k \in OnAccount(transactions[i].account_id) :
        /\ k < i
        /\ \A m \in OnAccount(transactions[i].account_id) : m < i => m <= k

\* Transaction i does not start where the previous one on its account ended.
BreaksChain(i) ==
    /\ HasPrevious(i)
    /\ transactions[i].account_update.initial_state_commitment
          # transactions[Previous(i)].account_update.final_state_commitment

AccountsChained == \A i \in TxIndices : ~BreaksChain(i)

PassesAccountPhase ==
    /\ PassesEarlierPhases
    /\ AccountsChained
    /\ Cardinality(TouchedAccounts) <= MAX_ACCOUNTS_PER_BATCH

\* A nullifier consumed at two positions; a note id created at two positions.
RepeatsNullifier(p) ==
    \E q \in InputPositions : Before(q, p) /\ InputAt(q).nullifier = InputAt(p).nullifier

RepeatsNoteId(p) ==
    \E q \in OutputPositions : Before(q, p) /\ OutputAt(q).id = OutputAt(p).id

DistinctNullifiers == \A p \in InputPositions : ~RepeatsNullifier(p)

DistinctCreatedIds == \A p \in OutputPositions : ~RepeatsNoteId(p)

\* ------------------------------------------------------------------------
\* Properties
\* ------------------------------------------------------------------------

\* C1 (note conservation): in a returned batch, an input note that carries
\* a header whose id is the id of an output note of some transaction of the
\* batch has its nullifier in no entry of input_notes and its id in no entry
\* of output_notes.
C1_NoteConservation ==
    Returned =>
        \A p \in InputPositions :
            CreatedInBatch(p) =>
                /\ \A k \in 1..Len(result.batch.input_notes) :
                      result.batch.input_notes[k].nullifier # InputAt(p).nullifier
                /\ \A k \in 1..Len(result.batch.output_notes) :
                      result.batch.output_notes[k].id # Unwrap(InputAt(p).header).id

\* A returned batch in which a note is created by one transaction, consumed
\* by another, and other notes remain on both sides.
C1_Witness ==
    /\ Returned
    /\ \E p \in InputPositions : \E q \in OutputPositions :
          /\ CreatedInBatch(p)
          /\ OutputAt(q).id = Unwrap(InputAt(p).header).id
          /\ p[1] # q[1]
    /\ Len(result.batch.input_notes) > 0
    /\ Len(result.batch.output_notes) > 0

\* C2 (account chaining): a returned batch has one account update per
\* account touched; the update starts at the initial commitment of the first
\* transaction on the account, ends at the final commitment of the last one,
\* lists the ids of the account's transactions in input order, and
\* consecutive transactions on the account chain.
C2_AccountChaining ==
    Returned =>
        /\ DOMAIN result.batch.account_updates = TouchedAccounts
        /\ \A a \in TouchedAccounts :
              LET update == result.batch.account_updates[a]
                  order == SortedKeys(OnAccount(a))
              IN /\ update.account_id = a
                 /\ update.initial_state_commitment
                       = transactions[order[1]].account_update.initial_state_commitment
                 /\ update.final_state_commitment
                       = transactions[order[Len(order)]].account_update.final_state_commitment
                 /\ update.transactions = [k \in 1..Len(order) |-> transactions[order[k]].id]
                 /\ \A k \in 1..(Len(order) - 1) :
                       transactions[order[k]].account_update.final_state_commitment
                          = transactions[order[k + 1]].account_update.initial_state_commitment

\* A returned batch with two accounts, one of them updated by two
\* transactions that another account's transaction separates.
C2_Witness ==
    /\ Returned
    /\ Cardinality(TouchedAccounts) = 2
    /\ \E i, k \in TxIndices :
          /\ k > i + 1
          /\ transactions[i].account_id = transactions[k].account_id
          /\ transactions[i].account_update.initial_state_commitment
                # transactions[i].account_update.final_state_commitment
          /\ transactions[i + 1].account_id # transactions[i].account_id

\* C3 (ordering is checked): when the arguments pass the earlier phases and
\* some transaction does not start at the final commitment of the previous
\* transaction on its account, the constructor returns AccountUpdateError
\* for the account of the first such transaction and returns no batch.
C3_OrderingChecked ==
    (pc = "done" /\ PassesEarlierPhases /\ ~AccountsChained) =>
        LET first == SetMin({i \in TxIndices : BreaksChain(i)}) IN
        /\ result.tag = "Err"
        /\ result.error.kind = "AccountUpdateError"
        /\ result.error.account_id = transactions[first].account_id

\* The constructor has returned on a batch whose third transaction breaks
\* the chain of the first, on an account other than the second's.
C3_Witness ==
    /\ pc = "done"
    /\ PassesEarlierPhases
    /\ Len(transactions) >= 3
    /\ BreaksChain(3)
    /\ ~BreaksChain(2)
    /\ transactions[3].account_id # transactions[2].account_id
    /\ FailedWith("AccountUpdateError")


\* The arguments pass every check that precedes the reconciliation of the
\* input notes.
ReachesReconciliation ==
    /\ PassesAccountPhase
    /\ DistinctNullifiers
    /\ DistinctCreatedIds

HasProof(p) ==
    /\ IsSome(InputAt(p).header)
    /\ Unwrap(InputAt(p).header).id \in DOMAIN unauthenticated_note_proofs

ProofOf(p) == unauthenticated_note_proofs[Unwrap(InputAt(p).header).id]

ProofBlockPresent(proof) == proof.location.block_num \in DOMAIN chain_mmr.blocks

\* The path of the proof leads from the note's hash to the note root of the
\* block the proof references.
PathLeadsToNoteRoot(p) ==
    PathVerify(ProofOf(p).note_path, ProofOf(p).location.node_index_in_block,
               HeaderHash(Unwrap(InputAt(p).header)),
               chain_mmr.blocks[ProofOf(p).location.block_num].note_root)

ProofVerifies(p) == HasProof(p) /\ ProofBlockPresent(ProofOf(p)) /\ PathLeadsToNoteRoot(p)

\* What can be wrong with the input note at p during reconciliation.
HashMismatch(p) ==
    /\ CreatedInBatch(p)
    /\ \E q \in OutputPositions :
          /\ OutputAt(q).id = Unwrap(InputAt(p).header).id
          /\ NoteHash(OutputAt(q).id, OutputAt(q).metadata) # HeaderHash(Unwrap(InputAt(p).header))

BlockMissing(p) == HasProof(p) /\ ~CreatedInBatch(p) /\ ~ProofBlockPresent(ProofOf(p))

ProofFails(p) ==
    /\ HasProof(p)
    /\ ~CreatedInBatch(p)
    /\ ProofBlockPresent(ProofOf(p))
    /\ ~PathLeadsToNoteRoot(p)

Offends(p) == HashMismatch(p) \/ BlockMissing(p) \/ ProofFails(p)

NoEarlierOffender(p) == \A q \in InputPositions : Before(q, p) => ~Offends(q)

NoOffender == \A p \in InputPositions : ~Offends(p)

\* The commitment of the note at p with its header erased is in the batch's
\* input notes, and the commitment with the header is not.
ErasedInBatch(p) ==
    /\ \E k \in 1..Len(result.batch.input_notes) :
          result.batch.input_notes[k] = [nullifier |-> InputAt(p).nullifier, header |-> None]
    /\ \A k \in 1..Len(result.batch.input_notes) :
          result.batch.input_notes[k].nullifier = InputAt(p).nullifier
             => ~IsSome(result.batch.input_notes[k].header)

FailedAuthentication(p) ==
    /\ FailedWith("UnauthenticatedNoteAuthenticationFailed")
    /\ result.error.note_id = Unwrap(InputAt(p).header).id
    /\ result.error.block_num = ProofOf(p).location.block_num

\* C4 as claimed (authentication soundness for every unauthenticated input
\* note with a proof): a proof that verifies puts the note into the returned
\* batch's input_notes with its header erased, and a proof that fails makes
\* the constructor return UnauthenticatedNoteAuthenticationFailed with the
\* note's id and the proof's block number.
C4_Original ==
    \A p \in InputPositions :
        HasProof(p) =>
            /\ (Returned /\ ProofVerifies(p)) => ErasedInBatch(p)
            /\ (/\ pc = "done"
                /\ ReachesReconciliation
                /\ NoEarlierOffender(p)
                /\ ProofBlockPresent(ProofOf(p))
                /\ ~PathLeadsToNoteRoot(p)) => FailedAuthentication(p)

\* C4 as amended: the same for an unauthenticated input note with a proof
\* that no transaction of the batch creates; the failing proof is reported
\* when no earlier check and no earlier input note fails.
C4_AuthenticationSoundness ==
    \A p \in InputPositions :
        (HasProof(p) /\ ~CreatedInBatch(p)) =>
            /\ (Returned /\ ProofVerifies(p)) => ErasedInBatch(p)
            /\ (/\ pc = "done"
                /\ ReachesReconciliation
                /\ NoEarlierOffender(p)
                /\ ProofFails(p)) => FailedAuthentication(p)

\* A returned batch with an erased header, and next to it a note whose
\* authentication is deferred.
C4_Witness ==
    /\ Returned
    /\ \E p, q \in InputPositions :
          /\ HasProof(p) /\ ~CreatedInBatch(p) /\ ProofVerifies(p) /\ ErasedInBatch(p)
          /\ IsSome(InputAt(q).header) /\ ~HasProof(q) /\ ~CreatedInBatch(q)

\* C5 as claimed: the constructor returns a batch only if every entry of
\* unauthenticated_note_proofs references a block of chain_mmr and verifies
\* against its note root; an entry with an absent block yields
\* UnauthenticatedInputNoteBlockNotInChainMmr, one with a failing path
\* yields UnauthenticatedNoteAuthenticationFailed.
C5_Original ==
    /\ Returned =>
          /\ \A id \in DOMAIN unauthenticated_note_proofs :
                ProofBlockPresent(unauthenticated_note_proofs[id])
          /\ \A p \in InputPositions : HasProof(p) => PathLeadsToNoteRoot(p)
    /\ \A p \in InputPositions :
          (pc = "done" /\ ReachesReconciliation /\ NoEarlierOffender(p) /\ HasProof(p)) =>
              /\ ~ProofBlockPresent(ProofOf(p)) =>
                    FailedWith("UnauthenticatedInputNoteBlockNotInChainMmr")
              /\ (ProofBlockPresent(ProofOf(p)) /\ ~PathLeadsToNoteRoot(p)) =>
                    FailedAuthentication(p)

\* C5 as amended: the constructor returns a batch only if every entry of
\* unauthenticated_note_proofs that belongs to an unauthenticated input note
\* not created in the batch references a block of chain_mmr and verifies;
\* for such a note, when no earlier check and no earlier input note fails,
\* an absent block yields UnauthenticatedInputNoteBlockNotInChainMmr with
\* the proof's block number and the note's id, and a failing path yields
\* UnauthenticatedNoteAuthenticationFailed.
C5_ProofsChecked ==
    /\ Returned =>
          \A p \in InputPositions :
              (HasProof(p) /\ ~CreatedInBatch(p)) =>
                  ProofBlockPresent(ProofOf(p)) /\ PathLeadsToNoteRoot(p)
    /\ \A p \in InputPositions :
          (pc = "done" /\ ReachesReconciliation /\ NoEarlierOffender(p)) =>
              /\ BlockMissing(p) =>
                    /\ FailedWith("UnauthenticatedInputNoteBlockNotInChainMmr")
                    /\ result.error.block_number = ProofOf(p).location.block_num
                    /\ result.error.note_id = Unwrap(InputAt(p).header).id
              /\ ProofFails(p) => FailedAuthentication(p)

\* The constructor has failed on the second of two notes with proofs: the
\* first proof verifies, the second references a block the chain MMR lacks.
C5_Witness ==
    /\ FailedWith("UnauthenticatedInputNoteBlockNotInChainMmr")
    /\ \E p, q \in InputPositions :
          /\ Before(p, q)
          /\ ProofVerifies(p) /\ ~CreatedInBatch(p)
          /\ BlockMissing(q)

\* Notes left on each side once the notes created and consumed in the batch
\* are taken out.
RemainingInputs == Cardinality({p \in InputPositions : ~CreatedInBatch(p)})

ConsumedInBatch(q) ==
    \E p \in InputPositions :
        IsSome(InputAt(p).header) /\ Unwrap(InputAt(p).header).id = OutputAt(q).id

RemainingOutputs == Cardinality({q \in OutputPositions : ~ConsumedInBatch(q)})

WithinLimits ==
    /\ Cardinality(DOMAIN result.batch.account_updates) <= MAX_ACCOUNTS_PER_BATCH
    /\ Len(result.batch.input_notes) <= MAX_INPUT_NOTES_PER_BATCH
    /\ Len(result.batch.output_notes) <= MAX_OUTPUT_NOTES_PER_BATCH

FailedWithCount(kind, n) == FailedWith(kind) /\ result.error.len = n

\* C6 as claimed: a returned batch respects the three limits, and any
\* arguments that exceed a limit yield the error of that limit with the
\* offending count.
C6_Original ==
    /\ Returned => WithinLimits
    /\ pc = "done" =>
          /\ Cardinality(TouchedAccounts) > MAX_ACCOUNTS_PER_BATCH =>
                FailedWithCount("TooManyAccountUpdates", Cardinality(TouchedAccounts))
          /\ RemainingInputs > MAX_INPUT_NOTES_PER_BATCH =>
                FailedWithCount("TooManyInputNotes", RemainingInputs)
          /\ RemainingOutputs > MAX_OUTPUT_NOTES_PER_BATCH =>
                FailedWithCount("TooManyOutputNotes", RemainingOutputs)

\* C6 as amended: a returned batch respects the three limits and arguments
\* that exceed a limit never yield a batch; they yield the error of that
\* limit, with the offending count, when every check that precedes the
\* limit's own check passes (the input-note limit is checked before the
\* output-note limit).
C6_Bounds ==
    /\ Returned =>
          /\ WithinLimits
          /\ Cardinality(TouchedAccounts) <= MAX_ACCOUNTS_PER_BATCH
          /\ RemainingInputs <= MAX_INPUT_NOTES_PER_BATCH
          /\ RemainingOutputs <= MAX_OUTPUT_NOTES_PER_BATCH
    /\ pc = "done" =>
          /\ (/\ PassesEarlierPhases
              /\ AccountsChained
              /\ Cardinality(TouchedAccounts) > MAX_ACCOUNTS_PER_BATCH) =>
                FailedWithCount("TooManyAccountUpdates", Cardinality(TouchedAccounts))
          /\ (/\ ReachesReconciliation
              /\ NoOffender
              /\ RemainingInputs > MAX_INPUT_NOTES_PER_BATCH) =>
                FailedWithCount("TooManyInputNotes", RemainingInputs)
          /\ (/\ ReachesReconciliation
              /\ NoOffender
              /\ RemainingInputs <= MAX_INPUT_NOTES_PER_BATCH
              /\ RemainingOutputs > MAX_OUTPUT_NOTES_PER_BATCH) =>
                FailedWithCount("TooManyOutputNotes", RemainingOutputs)

\* The constructor has rejected a batch for its output notes, one more than
\* the limit, after accepting its input notes, which are exactly at theirs.
C6_Witness ==
    /\ FailedWithCount("TooManyOutputNotes", MAX_OUTPUT_NOTES_PER_BATCH + 1)
    /\ RemainingInputs = MAX_INPUT_NOTES_PER_BATCH
    /\ Cardinality(InputPositions) = MAX_INPUT_NOTES_PER_BATCH


\* C7 (uniqueness and order of results): in a returned batch the nullifiers
\* of input_notes are pairwise distinct and output_notes is strictly
\* increasing by note id.
C7_UniqueAndSorted ==
    Returned =>
        /\ \A k, m \in 1..Len(result.batch.input_notes) :
              k # m => result.batch.input_notes[k].nullifier
                          # result.batch.input_notes[m].nullifier
        /\ \A k \in 1..(Len(result.batch.output_notes) - 1) :
              result.batch.output_notes[k].id < result.batch.output_notes[k + 1].id

\* A returned batch with two input notes and two output notes, the output
\* notes created in decreasing order of their ids.
C7_Witness ==
    /\ Returned
    /\ Len(result.batch.input_notes) = 2
    /\ Len(result.batch.output_notes) = 2
    /\ \E p, q \in OutputPositions :
          /\ Before(p, q)
          /\ OutputAt(p).id > OutputAt(q).id
          /\ ~ConsumedInBatch(p)
          /\ ~ConsumedInBatch(q)

\* C8 (expiration): in a returned batch batch_expiration_block_num is the
\* least expiration_block_num of the batch's transactions; it is u32::MAX
\* only if every transaction expires at u32::MAX.
C8_Expiration ==
    Returned =>
        /\ result.batch.batch_expiration_block_num
              = SetMin({transactions[i].expiration_block_num : i \in TxIndices})
        /\ result.batch.batch_expiration_block_num = U32_MAX =>
              \A i \in TxIndices : transactions[i].expiration_block_num = U32_MAX

\* A returned batch of three transactions in which the one in the middle
\* expires first and another never expires.
C8_Witness ==
    /\ Returned
    /\ Len(transactions) = 3
    /\ transactions[2].expiration_block_num < transactions[1].expiration_block_num
    /\ transactions[2].expiration_block_num < transactions[3].expiration_block_num
    /\ transactions[3].expiration_block_num < transactions[1].expiration_block_num
    /\ transactions[1].expiration_block_num = U32_MAX
    /\ result.batch.batch_expiration_block_num = transactions[2].expiration_block_num

\* C9 (duplicate input note): when the arguments pass the checks up to the
\* account limit and a nullifier occurs twice among the input notes, the
\* constructor returns DuplicateInputNote for the first nullifier found
\* again, with the id of the transaction of its first occurrence and the id
\* of the transaction of the occurrence that repeats it.
C9_DuplicateInputNote ==
    (pc = "done" /\ PassesAccountPhase /\ ~DistinctNullifiers) =>
        LET later == FirstPosition({p \in InputPositions : RepeatsNullifier(p)})
            earlier == FirstPosition({q \in InputPositions :
                           InputAt(q).nullifier = InputAt(later).nullifier})
        IN /\ FailedWith("DuplicateInputNote")
           /\ result.error.note_nullifier = InputAt(later).nullifier
           /\ result.error.first_transaction_id = transactions[earlier[1]].id
           /\ result.error.second_transaction_id = transactions[later[1]].id

\* The constructor has failed on a note that the first transaction consumes
\* authenticated and the second one unauthenticated.
C9_Witness ==
    /\ FailedWith("DuplicateInputNote")
    /\ result.error.first_transaction_id # result.error.second_transaction_id
    /\ \E p, q \in InputPositions :
          /\ p[1] < q[1]
          /\ InputAt(p).nullifier = InputAt(q).nullifier
          /\ InputAt(p).nullifier = result.error.note_nullifier
          /\ ~IsSome(InputAt(p).header)
          /\ IsSome(InputAt(q).header)

\* The tracker has been built and no input note has been reconciled yet.
TrackerBuilt == pc = "reconcile_input_notes"

\* C10 (duplicate output note): BatchOutputNoteTracker::new fails with
\* DuplicateOutputNote exactly when a note id is created more than once; the
\* error names the first id found again, the creator of its first occurrence
\* and the creator of the occurrence that repeats it.  Otherwise the tracker
\* maps the id of every output note of every transaction to its creator and
\* the note.
C10_DuplicateOutputNote ==
    /\ FailedWith("DuplicateOutputNote") => ~DistinctCreatedIds
    /\ (/\ pc \in {"reconcile_input_notes", "finalize", "done"}
        /\ PassesAccountPhase
        /\ DistinctNullifiers
        /\ ~DistinctCreatedIds) =>
          LET later == FirstPosition({p \in OutputPositions : RepeatsNoteId(p)})
              earlier == FirstPosition({q \in OutputPositions :
                             OutputAt(q).id = OutputAt(later).id})
          IN /\ FailedWith("DuplicateOutputNote")
             /\ result.error.note_id = OutputAt(later).id
             /\ result.error.first_transaction_id = transactions[earlier[1]].id
             /\ result.error.second_transaction_id = transactions[later[1]].id
    /\ TrackerBuilt =>
          /\ DistinctCreatedIds
          /\ DOMAIN output_notes = CreatedIds
          /\ \A q \in OutputPositions :
                output_notes[OutputAt(q).id] = <<transactions[q[1]].id, OutputAt(q)>>

\* The tracker holds three notes of two transactions.
C10_Witness ==
    /\ TrackerBuilt
    /\ Cardinality(DOMAIN output_notes) = 3
    /\ \E id1, id2 \in DOMAIN output_notes : output_notes[id1][1] # output_notes[id2][1]


\* Transaction i references the reference block or a block of the chain MMR.
ReferencesKnownBlock(i) ==
    \/ transactions[i].block_ref = BlockHash(block_header)
    \/ \E n \in DOMAIN chain_mmr.blocks :
          transactions[i].block_ref = BlockHash(chain_mmr.blocks[n])

RepeatsTransactionId(i) == \E k \in TxIndices : k < i /\ transactions[k].id = transactions[i].id

SecondCallDone == pc = "done" /\ IsSome(parts)

FirstParts == Unwrap(parts)

IdsOf(txs) == [i \in 1..Len(txs) |-> txs[i].id]

\* The second call was made with the arguments stored in the first batch.
SameArguments ==
    /\ transactions = FirstParts[1]
    /\ block_header = FirstParts[2]
    /\ chain_mmr = FirstParts[3]
    /\ unauthenticated_note_proofs = FirstParts[4]

C15_RoundTrip ==
    /\ pc = "destructured" => SameArguments
    /\ (SecondCallDone /\ SameArguments) =>
          /\ result.tag = "Ok"
          /\ result.batch.id = FirstParts[5]
          /\ result.batch.account_updates = FirstParts[6]
          /\ result.batch.input_notes = FirstParts[7]
          /\ result.batch.output_notes_tree = FirstParts[8]
          /\ result.batch.output_notes = FirstParts[9]
          /\ result.batch.batch_expiration_block_num = FirstParts[10]

\* A batch rebuilt from its parts: two transactions on two accounts, a
\* proof that erased a header, an input note and an output note.
C15_Witness ==
    /\ SecondCallDone
    /\ SameArguments
    /\ result.tag = "Ok"
    /\ Len(transactions) = 2
    /\ Cardinality(DOMAIN result.batch.account_updates) = 2
    /\ \E p \in InputPositions : ProofVerifies(p) /\ ~CreatedInBatch(p)
    /\ Len(result.batch.input_notes) > 0
    /\ Len(result.batch.output_notes) > 0


\* The second call was made with two adjacent transactions on different
\* accounts exchanged and nothing else changed.
SwappedArguments ==
    /\ \E i \in SwappablePositions(FirstParts[1]) : transactions = Swapped(FirstParts[1], i)
    /\ block_header = FirstParts[2]
    /\ chain_mmr = FirstParts[3]
    /\ unauthenticated_note_proofs = FirstParts[4]

\* The input note at p carries a header with the id and the hash of the
\* output note at q.
Matches(p, q) ==
    /\ IsSome(InputAt(p).header)
    /\ Unwrap(InputAt(p).header).id = OutputAt(q).id
    /\ HeaderHash(Unwrap(InputAt(p).header)) = NoteHash(OutputAt(q).id, OutputAt(q).metadata)

NullifiersOf(notes) == {notes[k].nullifier : k \in 1..Len(notes)}

NoteIdsOf(notes) == {notes[k].id : k \in 1..Len(notes)}

\* C18 (reconciliation does not depend on the transaction order): in a
\* returned batch an unauthenticated input note that matches an output note
\* of the batch, created by an earlier, the same or a later transaction, is
\* in neither input_notes nor output_notes; and exchanging two adjacent
\* transactions on different accounts of a returned batch yields a batch
\* with the same set of input nullifiers and the same set of output note
\* ids.
C18_OrderIndependence ==
    /\ Returned =>
          \A p \in InputPositions : \A q \in OutputPositions :
              Matches(p, q) =>
                  /\ InputAt(p).nullifier \notin NullifiersOf(result.batch.input_notes)
                  /\ OutputAt(q).id \notin NoteIdsOf(result.batch.output_notes)
    /\ (SecondCallDone /\ SwappedArguments) =>
          /\ result.tag = "Ok"
          /\ NullifiersOf(result.batch.input_notes) = NullifiersOf(FirstParts[7])
          /\ NoteIdsOf(result.batch.output_notes) = NoteIdsOf(FirstParts[9])

\* Two returned batches of the same two transactions in either order: here
\* the consuming transaction comes first, in the first call it came second;
\* the batch keeps another input note.
C18_Witness ==
    /\ SecondCallDone
    /\ SwappedArguments
    /\ result.tag = "Ok"
    /\ \E p \in InputPositions : \E q \in OutputPositions : Matches(p, q) /\ p[1] < q[1]
    /\ Len(result.batch.input_notes) > 0


\* ------------------------------------------------------------------------
\* Properties of the input-note list and of the order of the errors
\* ------------------------------------------------------------------------

\* A set of positions as a list in transaction-then-note order.
RECURSIVE PositionsInOrder(_)
PositionsInOrder(P) ==
    IF P = {} THEN <<>>
    ELSE LET p == FirstPosition(P) IN <<p>> \o PositionsInOrder(P \ {p})

\* What the batch holds for the input note at p: the nullifier alone when a
\* proof is handed in for the note, the note as it is otherwise.
ExpectedEntry(p) ==
    IF HasProof(p) THEN [nullifier |-> InputAt(p).nullifier, header |-> None] ELSE InputAt(p)

ExpectedInputNotes ==
    LET kept == PositionsInOrder({p \in InputPositions : ~CreatedInBatch(p)})
    IN [k \in 1..Len(kept) |-> ExpectedEntry(kept[k])]

\* C19 (content of the input-note list): in a returned batch input_notes is
\* the list, in transaction order and then in note order, of the input notes
\* that match no output note of the batch; an entry has a header exactly
\* when the note has one, is not created in the batch and has no entry in
\* unauthenticated_note_proofs; a note without a header is in the list as
\* it is.
C19_InputNoteList ==
    Returned =>
        /\ result.batch.input_notes = ExpectedInputNotes
        /\ LET kept == PositionsInOrder({p \in InputPositions : ~CreatedInBatch(p)}) IN
           \A k \in 1..Len(kept) :
               /\ IsSome(result.batch.input_notes[k].header)
                     <=> (IsSome(InputAt(kept[k]).header) /\ ~HasProof(kept[k]))
               /\ ~IsSome(InputAt(kept[k]).header) =>
                     result.batch.input_notes[k] = InputAt(kept[k])

\* A returned batch whose transactions consume, in this order, a note with
\* a proof, a note the batch creates and for which a proof is handed in too,
\* and a note with a header and no proof.
C19_Witness ==
    /\ Returned
    /\ Len(result.batch.input_notes) = 2
    /\ \E p, q, r \in InputPositions :
          /\ Before(p, q) /\ Before(q, r)
          /\ HasProof(p) /\ ~CreatedInBatch(p)
          /\ HasProof(q) /\ CreatedInBatch(q)
          /\ IsSome(InputAt(r).header) /\ ~HasProof(r) /\ ~CreatedInBatch(r)

\* The error of the first offending input note.
ReconciliationErrorOf(p) ==
    IF HashMismatch(p) THEN "NoteHashesMismatch"
    ELSE IF BlockMissing(p) THEN "UnauthenticatedInputNoteBlockNotInChainMmr"
    ELSE "UnauthenticatedNoteAuthenticationFailed"

\* The outcome of the constructor by the order of its phases.
ExpectedOutcome ==
    IF Len(transactions) = 0 THEN "EmptyTransactionBatch"
    ELSE IF ~DistinctTransactionIds THEN "DuplicateTransaction"
    ELSE IF chain_mmr.chain_length # block_header.block_num THEN "InconsistentChainLength"
    ELSE IF HashPeaks(chain_mmr.peaks) # block_header.chain_root THEN "InconsistentChainRoot"
    ELSE IF ~BlockReferencesKnown THEN "MissingTransactionBlockReference"
    ELSE IF ~AccountsChained THEN "AccountUpdateError"
    ELSE IF Cardinality(TouchedAccounts) > MAX_ACCOUNTS_PER_BATCH THEN "TooManyAccountUpdates"
    ELSE IF ~DistinctNullifiers THEN "DuplicateInputNote"
    ELSE IF ~DistinctCreatedIds THEN "DuplicateOutputNote"
    ELSE IF ~NoOffender
         THEN ReconciliationErrorOf(FirstPosition({p \in InputPositions : Offends(p)}))
    ELSE IF RemainingInputs > MAX_INPUT_NOTES_PER_BATCH THEN "TooManyInputNotes"
    ELSE IF RemainingOutputs > MAX_OUTPUT_NOTES_PER_BATCH THEN "TooManyOutputNotes"
    ELSE "Ok"

\* The number of defects of the arguments, one per phase that would fail.
Defects ==
    Cardinality({k \in 1..12 :
        \/ k = 1 /\ Len(transactions) = 0
        \/ k = 2 /\ ~DistinctTransactionIds
        \/ k = 3 /\ chain_mmr.chain_length # block_header.block_num
        \/ k = 4 /\ HashPeaks(chain_mmr.peaks) # block_header.chain_root
        \/ k = 5 /\ ~BlockReferencesKnown
        \/ k = 6 /\ ~AccountsChained
        \/ k = 7 /\ Cardinality(TouchedAccounts) > MAX_ACCOUNTS_PER_BATCH
        \/ k = 8 /\ ~DistinctNullifiers
        \/ k = 9 /\ ~DistinctCreatedIds
        \/ k = 10 /\ ~NoOffender
        \/ k = 11 /\ RemainingInputs > MAX_INPUT_NOTES_PER_BATCH
        \/ k = 12 /\ RemainingOutputs > MAX_OUTPUT_NOTES_PER_BATCH})

BlockDone == pc = "block_done"

BlockReturned == BlockDone /\ block.tag = "Ok"

BlockFailedWith(kind) == BlockDone /\ block.tag = "Err" /\ block.error.kind = kind

ProposedBlockNum == prev_block_header.block_num + 1

BatchIndices == 1..Len(batches)

ExpiredAtBlock(i) == batches[i].batch_expiration_block_num < ProposedBlockNum

\* C16 (inclusive batch expiration): the block constructor proposes block
\* prev_block_header.block_num + 1 and rejects the batches for their
\* expiration exactly when one of them expires before that block; a batch
\* that expires at the proposed block is accepted, one that expires a block
\* earlier is rejected.
C16_InclusiveExpiration ==
    /\ BlockDone => (BlockFailedWith("BatchExpired") <=> \E i \in BatchIndices : ExpiredAtBlock(i))
    /\ BlockReturned =>
          /\ block.block.block_num = prev_block_header.block_num + 1
          /\ \A i \in BatchIndices :
                batches[i].batch_expiration_block_num >= block.block.block_num
    /\ BlockFailedWith("BatchExpired") =>
          /\ block.error.block_num = prev_block_header.block_num + 1
          /\ block.error.batch_expiration_block_num < block.error.block_num

\* A returned block with a batch that expires at the block's number and a
\* batch that expires later.
C16_Witness ==
    /\ BlockReturned
    /\ \E i, k \in BatchIndices :
          /\ batches[i].batch_expiration_block_num = block.block.block_num
          /\ batches[k].batch_expiration_block_num > block.block.block_num

\* The batches that update account a, and the accounts the batches update.
BatchesOn(a) == {i \in BatchIndices : a \in DOMAIN batches[i].account_updates}

BlockAccounts == UNION {DOMAIN batches[i].account_updates : i \in BatchIndices}

\* The orders in which the updates of account a chain: each update starts
\* at the final commitment of the one before.
ChainOrders(a) ==
    {order \in [1..Cardinality(BatchesOn(a)) -> BatchesOn(a)] :
        /\ \A k, m \in DOMAIN order : k # m => order[k] # order[m]
        /\ \A k \in 1..(Len(order) - 1) :
              batches[order[k]].account_updates[a].final_state_commitment
                 = batches[order[k + 1]].account_updates[a].initial_state_commitment}

\* The transactions of account a, batch after batch in the given order.
RECURSIVE TransactionsAlong(_, _, _)
TransactionsAlong(a, order, k) ==
    IF k > Len(order) THEN <<>>
    ELSE batches[order[k]].account_updates[a].transactions \o TransactionsAlong(a, order, k + 1)

\* The updates of account a chain from the commitment of its witness.
ChainsFromWitness(a) ==
    /\ a \in DOMAIN account_witnesses
    /\ \E order \in ChainOrders(a) :
          batches[order[1]].account_updates[a].initial_state_commitment = account_witnesses[a]

\* C17 (aggregation across batches does not depend on the batch order):
\* when no batch is expired and the updates of every account chain from the
\* account's witnessed commitment, in whatever order their batches are, a
\* block is returned; a returned block has one update per account, from the
\* initial commitment of the first update of the chain to the final
\* commitment of the last, with the transactions in the order of the chain.
C17_AggregationAcrossBatches ==
    /\ (/\ BlockDone
        /\ \A i \in BatchIndices : ~ExpiredAtBlock(i)
        /\ \A a \in BlockAccounts : ChainsFromWitness(a)) => BlockReturned
    /\ BlockReturned =>
          /\ DOMAIN block.block.updated_accounts = BlockAccounts
          /\ \A a \in BlockAccounts :
                \E order \in ChainOrders(a) :
                    LET update == block.block.updated_accounts[a] IN
                    /\ update.account_id = a
                    /\ update.initial_state_commitment
                          = batches[order[1]].account_updates[a].initial_state_commitment
                    /\ update.final_state_commitment
                          = batches[order[Len(order)]].account_updates[a].final_state_commitment
                    /\ update.transactions = TransactionsAlong(a, order, 1)

\* A returned block of two batches on one account: the first batch holds
\* the third transaction of the chain, the second batch the first two.
C17_Witness ==
    /\ BlockReturned
    /\ Len(batches) = 2
    /\ BatchesOn(1) = {1, 2}
    /\ Len(batches[1].transactions) = 1
    /\ Len(batches[2].transactions) = 2
    /\ batches[2].account_updates[1].final_state_commitment
          = batches[1].account_updates[1].initial_state_commitment
    /\ block.block.updated_accounts[1].transactions
          = batches[2].account_updates[1].transactions
               \o batches[1].account_updates[1].transactions


====
